---- MODULE Spec2Model ----
(***************************************************************************)
(* Multi-provider generation orchestrator of the DocOnCall server:         *)
(* generateWithFallback, chatWithFallback, the shared modelStats map, the  *)
(* chatSessions store and the routes that drive them.                      *)
(*                                                                         *)
(* The server runs on one JavaScript thread, so the code between two       *)
(* awaits is one atomic step.  A request is therefore modelled by the      *)
(* step that starts it (the route handler and the fallback loop up to its  *)
(* first provider call) and one step per provider response (the rest of    *)
(* the try block or the catch block, then the loop up to the next provider *)
(* call, the return or the throw, and the route handler's continuation).   *)
(*                                                                         *)
(* Specifications:                                                         *)
(*   Spec            both fallback loops, clear-chat and the clock         *)
(*   SpecSessions    the chat routes with two sessionIds, clear-all-chats  *)
(*   SpecValidation  requests with a missing required field                *)
(*   SpecConfig      plain generation with any config overrides            *)
(*   SpecRouting     a whole request as a function of stats and time       *)
(*   SpecAbort       requests whose client goes away during a call         *)
(*   SpecLive        requests whose provider calls all return (fairness)   *)
(*   SpecSnapshot    the stats snapshot as a function of the stats         *)
(***************************************************************************)
EXTENDS Integers, Sequences, FiniteSets, TLC

\* ---------------------------------------------------------------- bounds
\* number of leading MODEL_PRIORITY entries the model keeps
NModels == 3
\* request slots that may be in flight at the same time
MaxReqs == 2
\* requests accepted in one behaviour
MaxStarts == 2
\* the clock stops advancing here
MaxNow == 60001
\* provider calls that are answered in one behaviour; a call beyond them
\* stays in flight
MaxResponses == 3
\* the same for the behaviours of SpecSessions, which hold chat requests only
MaxChatResponses == 4
\* attempts a model has counted when its stats are read in SpecSnapshot
MaxAttempts == 3

\* ------------------------------------------------------ program constants
\* the cooldown window of the skip test, in milliseconds
CooldownMs == 60000

\* JavaScript null / undefined for a number or a string
null == 0
undefined == ""

\* generation parameters: temperature and topP are kept in hundredths
GeminiConfig(maxOutputTokens) ==
    [temperature |-> 70, topK |-> 40, topP |-> 95, maxOutputTokens |-> maxOutputTokens]
GroqConfig == [temperature |-> 70, max_tokens |-> 8000]

MODEL_PRIORITY ==
    << [name |-> "gemini-2.5-flash", provider |-> "gemini",
         config |-> GeminiConfig(8000)],
       [name |-> "gemini-2.5-flash-lite", provider |-> "gemini",
         config |-> GeminiConfig(8000)],
       [name |-> "llama-3.3-70b-versatile", provider |-> "groq",
         config |-> GroqConfig],
       [name |-> "gemini-2.5-flash-tts", provider |-> "gemini",
         config |-> GeminiConfig(800)],
       [name |-> "gemini-3-flash", provider |-> "gemini",
         config |-> GeminiConfig(8000)],
       [name |-> "gemma-3-12b", provider |-> "gemini",
         config |-> GeminiConfig(8000)],
       [name |-> "gemma-3-1b", provider |-> "gemini",
         config |-> GeminiConfig(8000)],
       [name |-> "gemma-3-27b", provider |-> "gemini",
         config |-> GeminiConfig(8000)],
       [name |-> "gemma-3-2b", provider |-> "gemini",
         config |-> GeminiConfig(8000)],
       [name |-> "gemma-3-4b", provider |-> "gemini",
         config |-> GeminiConfig(8000)],
       [name |-> "gemini-robotics-er-1.5-preview", provider |-> "gemini",
         config |-> GeminiConfig(8000)] >>

\* the candidates the model iterates over, in registry order
Registry == SubSeq(MODEL_PRIORITY, 1, NModels)
Cands == 1..NModels
ModelNames == {Registry[i].name : i \in Cands}

Reqs == 1..MaxReqs
\* sessionId values: the sentinel of a missing sessionId and one other key
SessionIds == {"default", "s1"}
\* the sessionId field of a request body: missing, or the other key
BodySessionIds == {undefined, "s1"}
\* the sessionId field of the chat requests of Spec: they name no session, so
\* every conversation is kept under 'default'; clear-chat may name either key
ChatBodySessionIds == {undefined}

\* error messages a provider call may throw
ErrorMessages == {"429 Too Many Requests", "fetch failed"}
\* the provider errors that report a quota / limit / 429 condition
RateLimitErrors == {"429 Too Many Requests"}
\* the substrings the catch blocks look for, per error message
Includes(msg, token) ==
    /\ msg = "429 Too Many Requests"
    /\ token = "429"

VARIABLES
    now,            \* Date.now()
    modelStats,     \* Map name -> {attempts, failures, lastFailure, rateLimitHits}
    chatSessions,   \* Map sessionId -> chat object (0: no entry)
    chatObjs,       \* the chat objects that were ever stored, by identity
    req,            \* the requests in flight, per slot
    started,        \* requests accepted so far
    responses,      \* provider calls answered so far
    lastTurn,       \* history: per sessionId, the last chat turn served
    rateLimitedAt,  \* history: per model, when a provider last answered
                    \* with a rate-limit error (0: never)
    rateLimitedBy,  \* history: per model, the operation whose call got that
                    \* answer ("none": never)
    httpRes         \* the response sent by the step just taken, when that
                    \* step is a whole request (clear-all-chats, a rejection)

vars == <<now, modelStats, chatSessions, chatObjs, req, started, responses,
          lastTurn, rateLimitedAt, rateLimitedBy, httpRes>>
hist == <<lastTurn, rateLimitedAt, rateLimitedBy>>

\* ------------------------------------------------------------ dialogue
Turn(role, text) == [role |-> role, text |-> text]
\* the two priming turns of model.startChat; text 0 is the fixed priming text
Priming == << Turn("user", 0), Turn("model", 0) >>
\* the system message of the Groq chat call
GroqSystem == << Turn("system", 0) >>

\* the local variable `chat` of chatWithFallback
NoChat == [kind |-> "none", id |-> 0, modelName |-> undefined]
ChatRef(id) == [kind |-> "ref", id |-> id, modelName |-> undefined]
FreshChat(name) == [kind |-> "fresh", id |-> 0, modelName |-> name]

\* chat.modelName
chatModelName(chat, objs) ==
    IF chat.kind = "ref" THEN objs[chat.id].modelName ELSE chat.modelName

\* the history held by the chat object
chatHistory(chat, objs) ==
    IF chat.kind = "ref" THEN objs[chat.id].history ELSE Priming

\* ------------------------------------------------------------ requests
\* no AppError thrown
NoError == [statusCode |-> 0, message |-> << >>]

IdleReq ==
    [ pc |-> "idle", op |-> "none", imageParts |-> FALSE,
      sessionId |-> undefined, message |-> 0, idx |-> 0, chat |-> NoChat,
      lastError |-> undefined, log |-> << >>, statusCode |-> 0,
      error |-> NoError, modelUsed |-> undefined, provider |-> undefined,
      sent |-> << >>, startHistory |-> << >>, startModel |-> undefined,
      prevTurn |-> [modelName |-> undefined, sentLen |-> 0],
      customConfig |-> << >>, params |-> << >>, aborted |-> FALSE ]

\* no response sent by the step just taken
NoRes == [statusCode |-> 0, message |-> undefined, count |-> 0, models |-> << >>]

\* history: what one request did with candidate i
Entry(i, ev, err) == [i |-> i, ev |-> ev, err |-> err]

\* --------------------------------------------------------- modelStats
\* mutant: the window test is one millisecond short
isCoolingDown_short(stats, t) ==
    /\ stats.lastFailure # null
    /\ (t - stats.lastFailure) < CooldownMs - 1

\* mutant: a model with three failures or more is also left out
isCoolingDown_circuit(stats, t) ==
    \/ stats.failures >= 3
    \/ /\ stats.lastFailure # null
       /\ (t - stats.lastFailure) < CooldownMs

\* stats.lastFailure && (Date.now() - stats.lastFailure) < 60000
isCoolingDown(stats, t) ==
    /\ stats.lastFailure # null
    /\ (t - stats.lastFailure) < CooldownMs

\* the isRateLimit test of the two catch blocks
isRateLimit(msg) ==
    \/ Includes(msg, "RESOURCE_EXHAUSTED")
    \/ Includes(msg, "429")
    \/ Includes(msg, "quota")
    \/ Includes(msg, "rate limit")
    \/ Includes(msg, "Rate limit")

\* mutant: every error starts the cooldown
generateCatch_anyError(stats, name, msg, t) ==
    LET s1 == [stats EXCEPT ![name].failures = @ + 1]
    IN  IF isRateLimit(msg)
        THEN [s1 EXCEPT ![name].rateLimitHits = @ + 1, ![name].lastFailure = t]
        ELSE [s1 EXCEPT ![name].lastFailure = t]

\* the catch block of generateWithFallback, on modelStats
generateCatch(stats, name, msg, t) ==
    LET s1 == [stats EXCEPT ![name].failures = @ + 1]
    IN  IF isRateLimit(msg)
        THEN [s1 EXCEPT ![name].rateLimitHits = @ + 1, ![name].lastFailure = t]
        ELSE s1

\* mutant: chat requests keep the time of their rate-limit failures to
\* themselves
chatCatch_private(stats, name, msg, t) ==
    LET s1 == [stats EXCEPT ![name].failures = @ + 1]
    IN  IF isRateLimit(msg)
        THEN [s1 EXCEPT ![name].rateLimitHits = @ + 1]
        ELSE s1

\* mutant: the rate-limit branch forgets rateLimitHits++
chatCatch_noHit(stats, name, msg, t) ==
    LET s1 == [stats EXCEPT ![name].failures = @ + 1]
    IN  IF isRateLimit(msg)
        THEN [s1 EXCEPT ![name].lastFailure = t]
        ELSE s1

\* the catch block of chatWithFallback, on modelStats
chatCatch(stats, name, msg, t) ==
    LET s1 == [stats EXCEPT ![name].failures = @ + 1]
    IN  IF isRateLimit(msg)
        THEN [s1 EXCEPT ![name].rateLimitHits = @ + 1, ![name].lastFailure = t]
        ELSE s1

\* ------------------------------------------------- generateWithFallback
\* mutant: the Groq image test is missing
generateStep_noImageTest(i, stats, imageParts, t) ==
    LET modelConfig == Registry[i]
        s1 == [stats EXCEPT ![modelConfig.name].attempts = @ + 1]
    IN  IF isCoolingDown(s1[modelConfig.name], t)
        THEN [ev |-> "cooldown", stats |-> s1]
        ELSE [ev |-> "call", stats |-> s1]

\* mutant: a cooldown skip restarts the window
generateStep_skipRefreshes(i, stats, imageParts, t) ==
    LET modelConfig == Registry[i]
        s1 == [stats EXCEPT ![modelConfig.name].attempts = @ + 1]
    IN  IF isCoolingDown(s1[modelConfig.name], t)
        THEN [ev |-> "cooldown",
              stats |-> [s1 EXCEPT ![modelConfig.name].lastFailure = t]]
        ELSE IF modelConfig.provider = "groq" /\ imageParts
        THEN [ev |-> "image", stats |-> s1]
        ELSE [ev |-> "call", stats |-> s1]

\* mutant: attempts is not counted before the call
generateStep_noAttempt(i, stats, imageParts, t) ==
    LET modelConfig == Registry[i]
    IN  IF isCoolingDown(stats[modelConfig.name], t)
        THEN [ev |-> "cooldown", stats |-> stats]
        ELSE IF modelConfig.provider = "groq" /\ imageParts
        THEN [ev |-> "image", stats |-> stats]
        ELSE [ev |-> "call", stats |-> stats]

\* One iteration of the for loop for candidate i, up to the provider call:
\* attempts++, then the cooldown skip, then the Groq image skip.
generateStep(i, stats, imageParts, t) ==
    LET modelConfig == Registry[i]
        s1 == [stats EXCEPT ![modelConfig.name].attempts = @ + 1]
    IN  IF isCoolingDown(s1[modelConfig.name], t)
        THEN [ev |-> "cooldown", stats |-> s1]
        ELSE IF modelConfig.provider = "groq" /\ imageParts
        THEN [ev |-> "image", stats |-> s1]
        ELSE [ev |-> "call", stats |-> s1]

\* mutant: the request gives up after its first candidate
generateLoop_giveUp(i, stats, log, imageParts, t) ==
    IF i > 1
    THEN [stats |-> stats, log |-> log, idx |-> 0]
    ELSE LET d == generateStep(i, stats, imageParts, t)
         IN  IF d.ev = "call"
             THEN [stats |-> d.stats, log |-> log, idx |-> i]
             ELSE [stats |-> d.stats,
                   log |-> Append(log, Entry(i, d.ev, undefined)), idx |-> 0]

\* mutant: a candidate whose call failed is called once more before the
\* loop moves on
RECURSIVE generateLoop_retry(_, _, _, _, _)
generateLoop_retry(i, stats, log, imageParts, t) ==
    IF /\ i > 1
       /\ Len(log) = i - 1
       /\ log[i - 1].ev = "fail"
       /\ stats[Registry[i - 1].name].failures = 1
    THEN [stats |-> stats, log |-> log, idx |-> i - 1]
    ELSE IF i > NModels
    THEN [stats |-> stats, log |-> log, idx |-> 0]
    ELSE LET d == generateStep(i, stats, imageParts, t)
         IN  IF d.ev = "call"
             THEN [stats |-> d.stats, log |-> log, idx |-> i]
             ELSE generateLoop_retry(i + 1, d.stats,
                      Append(log, Entry(i, d.ev, undefined)), imageParts, t)

\* The for loop from candidate i up to its next provider call (idx > 0) or
\* to the end of MODEL_PRIORITY (idx = 0), run at time t.
RECURSIVE generateLoop(_, _, _, _, _)
generateLoop(i, stats, log, imageParts, t) ==
    IF i > NModels
    THEN [stats |-> stats, log |-> log, idx |-> 0]
    ELSE LET d == generateStep(i, stats, imageParts, t)
         IN  IF d.ev = "call"
             THEN [stats |-> d.stats, log |-> log, idx |-> i]
             ELSE generateLoop(i + 1, d.stats,
                      Append(log, Entry(i, d.ev, undefined)), imageParts, t)

\* obj.key of a JavaScript object: absent when obj has no such key
absent == -1
Get(obj, key) == IF key \in DOMAIN obj THEN obj[key] ELSE absent
\* a || b on numbers: b when a is undefined or 0
Or(a, b) == IF a \in {absent, 0} THEN b ELSE a
\* { ...a, ...b }
Spread(a, b) ==
    [key \in DOMAIN a \cup DOMAIN b |-> IF key \in DOMAIN b THEN b[key] ELSE a[key]]

\* the generation parameters generateWithFallback sends with its call to
\* candidate i
callParams(i, customConfig) ==
    LET modelConfig == Registry[i]
    IN  IF modelConfig.provider = "groq"
        THEN [ temperature |-> Or(Get(customConfig, "temperature"),
                                  modelConfig.config.temperature),
               max_tokens |-> Or(Get(customConfig, "maxOutputTokens"),
                                 modelConfig.config.max_tokens) ]
        ELSE Spread(modelConfig.config, customConfig)

\* the customConfig the routes pass: read-prescription with its image,
\* analyze-symptoms without
RouteConfig(imageParts) ==
    IF imageParts
    THEN [temperature |-> 20, maxOutputTokens |-> 500]
    ELSE [temperature |-> 30, maxOutputTokens |-> 600]

\* the AppError thrown after the loop of generateWithFallback
generateExhausted(lastError) ==
    [ statusCode |-> 503,
      message |-> << "AI service temporarily unavailable. Please try again in a moment. Last error: ",
                     IF lastError = undefined THEN "Unknown" ELSE lastError >> ]

\* mutant: the result names the preferred model, not the one that answered
generateResult_first(i) ==
    [ modelUsed |-> Registry[1].name,
      provider |-> IF Registry[1].provider = "groq" THEN "groq" ELSE "gemini" ]

\* the object returned by generateWithFallback for candidate i
generateResult(i) ==
    [ modelUsed |-> Registry[i].name,
      provider |-> IF Registry[i].provider = "groq" THEN "groq" ELSE "gemini" ]

\* ----------------------------------------------------- chatWithFallback
\* mutant: a cooldown skip is counted as a failure of the model
chatStep_countsSkip(i, stats, chat, objs, t) ==
    LET modelConfig == Registry[i]
        s1 == [stats EXCEPT ![modelConfig.name].attempts = @ + 1]
    IN  IF isCoolingDown(stats[modelConfig.name], t)
        THEN [ev |-> "cooldown",
              stats |-> [stats EXCEPT ![modelConfig.name].failures = @ + 1],
              chat |-> chat]
        ELSE IF modelConfig.provider = "groq"
        THEN [ev |-> "call", stats |-> s1, chat |-> chat]
        ELSE IF chat.kind = "none" \/ chatModelName(chat, objs) # modelConfig.name
        THEN [ev |-> "call", stats |-> s1, chat |-> FreshChat(modelConfig.name)]
        ELSE [ev |-> "call", stats |-> s1, chat |-> chat]

\* mutant: a fresh dialogue is started on every turn
chatStep_alwaysFresh(i, stats, chat, objs, t) ==
    LET modelConfig == Registry[i]
        s1 == [stats EXCEPT ![modelConfig.name].attempts = @ + 1]
    IN  IF isCoolingDown(stats[modelConfig.name], t)
        THEN [ev |-> "cooldown", stats |-> stats, chat |-> chat]
        ELSE IF modelConfig.provider = "groq"
        THEN [ev |-> "call", stats |-> s1, chat |-> chat]
        ELSE [ev |-> "call", stats |-> s1, chat |-> FreshChat(modelConfig.name)]

\* One iteration of the for loop for candidate i, up to the provider call:
\* the cooldown skip, attempts++, and for Gemini a fresh dialogue when the
\* local variable chat is missing or bound to another model.
chatStep(i, stats, chat, objs, t) ==
    LET modelConfig == Registry[i]
        s1 == [stats EXCEPT ![modelConfig.name].attempts = @ + 1]
    IN  IF isCoolingDown(stats[modelConfig.name], t)
        THEN [ev |-> "cooldown", stats |-> stats, chat |-> chat]
        ELSE IF modelConfig.provider = "groq"
        THEN [ev |-> "call", stats |-> s1, chat |-> chat]
        ELSE IF chat.kind = "none" \/ chatModelName(chat, objs) # modelConfig.name
        THEN [ev |-> "call", stats |-> s1, chat |-> FreshChat(modelConfig.name)]
        ELSE [ev |-> "call", stats |-> s1, chat |-> chat]

\* mutant: at the end of MODEL_PRIORITY the loop starts over once
RECURSIVE chatLoop_wrap(_, _, _, _, _, _)
chatLoop_wrap(i, stats, log, chat, objs, t) ==
    IF i > NModels
    THEN IF Len(log) <= NModels
         THEN chatLoop_wrap(1, stats, log, chat, objs, t)
         ELSE [stats |-> stats, log |-> log, idx |-> 0, chat |-> chat]
    ELSE LET d == chatStep(i, stats, chat, objs, t)
         IN  IF d.ev = "call"
             THEN [stats |-> d.stats, log |-> log, idx |-> i, chat |-> d.chat]
             ELSE chatLoop_wrap(i + 1, d.stats,
                      Append(log, Entry(i, d.ev, undefined)), d.chat, objs, t)

\* The for loop from candidate i up to its next provider call or to the
\* end of MODEL_PRIORITY.
RECURSIVE chatLoop(_, _, _, _, _, _)
chatLoop(i, stats, log, chat, objs, t) ==
    IF i > NModels
    THEN [stats |-> stats, log |-> log, idx |-> 0, chat |-> chat]
    ELSE LET d == chatStep(i, stats, chat, objs, t)
         IN  IF d.ev = "call"
             THEN [stats |-> d.stats, log |-> log, idx |-> i, chat |-> d.chat]
             ELSE chatLoop(i + 1, d.stats,
                      Append(log, Entry(i, d.ev, undefined)), d.chat, objs, t)

\* the AppError thrown after the loop of chatWithFallback
chatExhausted(lastError) ==
    [ statusCode |-> 503,
      message |-> << "AI chat temporarily unavailable. Please try again in a moment." >> ]

\* mutant: the result of every candidate is labelled as Gemini's
chatResult_gemini(i) ==
    [ modelUsed |-> Registry[i].name, provider |-> "gemini" ]

\* the object returned by chatWithFallback for candidate i (its chat field
\* is handled by the route)
chatResult(i) ==
    [ modelUsed |-> Registry[i].name,
      provider |-> IF Registry[i].provider = "groq" THEN "groq" ELSE "gemini" ]

\* mutant: Groq is sent the turns of the stored dialogue as well
chatSent_history(i, chat, objs, message) ==
    IF Registry[i].provider = "groq"
    THEN Append(GroqSystem \o chatHistory(chat, objs), Turn("user", message))
    ELSE Append(chatHistory(chat, objs), Turn("user", message))

\* what the provider of candidate i is sent for this turn
chatSent(i, chat, objs, message) ==
    IF Registry[i].provider = "groq"
    THEN Append(GroqSystem, Turn("user", message))
    ELSE Append(chatHistory(chat, objs), Turn("user", message))

\* chat.sendMessage succeeded: the dialogue gains the message and the reply
sendMessageOk(chat, objs, message) ==
    Append(Append(chatHistory(chat, objs), Turn("user", message)),
           Turn("model", message))

\* ------------------------------------------ a whole request in one piece
\* what the providers answer to one request: per candidate, a completion
\* ("ok") or the message of the error thrown, should the candidate be called
Outcomes == [Cands -> {"ok"} \cup ErrorMessages]

\* generateWithFallback from candidate i on, at time t, against the provider
\* answers of outcome: the stats it leaves, the candidates it examined and
\* what it returns or throws
RECURSIVE generateRun(_, _, _, _, _, _, _)
generateRun(i, stats, log, lastError, imageParts, outcome, t) ==
    LET L == generateLoop(i, stats, log, imageParts, t)
    IN  IF L.idx = 0
        THEN [ stats |-> L.stats, log |-> L.log, statusCode |-> 503,
               error |-> generateExhausted(lastError),
               modelUsed |-> undefined, provider |-> undefined ]
        ELSE IF outcome[L.idx] = "ok"
        THEN [ stats |-> L.stats,
               log |-> Append(L.log, Entry(L.idx, "ok", undefined)),
               statusCode |-> 200, error |-> NoError,
               modelUsed |-> generateResult(L.idx).modelUsed,
               provider |-> generateResult(L.idx).provider ]
        ELSE generateRun(L.idx + 1,
                 generateCatch(L.stats, Registry[L.idx].name, outcome[L.idx], t),
                 Append(L.log, Entry(L.idx, "fail", outcome[L.idx])),
                 outcome[L.idx], imageParts, outcome, t)

\* chatWithFallback in the same way; chat is the dialogue it was handed and
\* the result names the dialogue it returns (NoChat for chat: null)
RECURSIVE chatRun(_, _, _, _, _, _, _, _)
chatRun(i, stats, log, lastError, chat, objs, outcome, t) ==
    LET L == chatLoop(i, stats, log, chat, objs, t)
    IN  IF L.idx = 0
        THEN [ stats |-> L.stats, log |-> L.log, statusCode |-> 503,
               error |-> chatExhausted(lastError), chat |-> NoChat,
               modelUsed |-> undefined, provider |-> undefined ]
        ELSE IF outcome[L.idx] = "ok"
        THEN [ stats |-> L.stats,
               log |-> Append(L.log, Entry(L.idx, "ok", undefined)),
               statusCode |-> 200, error |-> NoError,
               chat |-> IF Registry[L.idx].provider = "groq" THEN NoChat ELSE L.chat,
               modelUsed |-> chatResult(L.idx).modelUsed,
               provider |-> chatResult(L.idx).provider ]
        ELSE chatRun(L.idx + 1,
                 chatCatch(L.stats, Registry[L.idx].name, outcome[L.idx], t),
                 Append(L.log, Entry(L.idx, "fail", outcome[L.idx])),
                 outcome[L.idx], L.chat, objs, outcome, t)

\* ------------------------------------------------------------------ Init
Init ==
    /\ now = 1
    /\ modelStats = [n \in ModelNames |->
           [attempts |-> 0, failures |-> 0, lastFailure |-> null, rateLimitHits |-> 0]]
    /\ chatSessions = [k \in SessionIds |-> 0]
    /\ chatObjs = << >>
    /\ req = [r \in Reqs |-> IdleReq]
    /\ started = 0
    /\ responses = 0
    /\ lastTurn = [k \in SessionIds |-> [modelName |-> undefined, sentLen |-> 0]]
    /\ rateLimitedAt = [n \in ModelNames |-> 0]
    /\ rateLimitedBy = [n \in ModelNames |-> "none"]
    /\ httpRes = NoRes

\* a new request takes the lowest slot that holds no request in flight
CanStart(r) ==
    /\ req[r].pc \in {"idle", "done"}
    /\ \A q \in Reqs : q < r => req[q].pc = "await"
    /\ started < MaxStarts

\* a request left the loop without a provider call to wait for
Thrown(rec, log, err) ==
    [rec EXCEPT !.pc = "done", !.idx = 0, !.chat = NoChat, !.log = log,
                !.statusCode = err.statusCode, !.error = err]

\* ------------------------------------------------------------- actions
\* A route that calls generateWithFallback (analyze-symptoms, ...,
\* read-prescription when imageParts) with its required field present and
\* the overrides customConfig.
StartGenerate(r, imageParts, customConfig) ==
    /\ httpRes' = NoRes
    /\ CanStart(r)
    /\ LET L == generateLoop(1, modelStats, << >>, imageParts, now)
           rec == [IdleReq EXCEPT !.op = "generate", !.imageParts = imageParts,
                                  !.message = started + 1,
                                  !.customConfig = customConfig]
       IN  /\ modelStats' = L.stats
           /\ req' = [req EXCEPT ![r] =
                  IF L.idx = 0
                  THEN Thrown(rec, L.log, generateExhausted(undefined))
                  ELSE [rec EXCEPT !.pc = "await", !.idx = L.idx, !.log = L.log,
                                   !.params = callParams(L.idx, customConfig)]]
    /\ started' = started + 1
    /\ UNCHANGED <<now, chatSessions, chatObjs, lastTurn, responses, rateLimitedAt,
                   rateLimitedBy>>

\* the provider call of generateWithFallback returns a completion
GenerateCallSucceeds(r) ==
    /\ httpRes' = NoRes
    /\ req[r].pc = "await"
    /\ responses' = responses + 1
    /\ req[r].op = "generate"
    /\ LET i == req[r].idx
           res == generateResult(i)
       IN  req' = [req EXCEPT ![r].pc = "done", ![r].idx = 0,
                              ![r].statusCode = 200,
                              ![r].modelUsed = res.modelUsed,
                              ![r].provider = res.provider,
                              ![r].log = Append(@, Entry(i, "ok", undefined))]
    /\ UNCHANGED <<now, modelStats, chatSessions, chatObjs, started, lastTurn, rateLimitedAt,
                   rateLimitedBy>>

\* the provider call of generateWithFallback throws an error with message msg
GenerateCallFails(r, msg) ==
    /\ httpRes' = NoRes
    /\ req[r].pc = "await"
    /\ responses' = responses + 1
    /\ req[r].op = "generate"
    /\ LET i == req[r].idx
           s1 == generateCatch(modelStats, Registry[i].name, msg, now)
           L == generateLoop(i + 1, s1, Append(req[r].log, Entry(i, "fail", msg)),
                             req[r].imageParts, now)
           rec == [req[r] EXCEPT !.lastError = msg]
       IN  /\ modelStats' = L.stats
           /\ req' = [req EXCEPT ![r] =
                  IF L.idx = 0
                  THEN Thrown(rec, L.log, generateExhausted(msg))
                  ELSE [rec EXCEPT !.idx = L.idx, !.log = L.log,
                                   !.params = callParams(L.idx, rec.customConfig)]]
    /\ UNCHANGED <<now, chatSessions, chatObjs, started, lastTurn>>
    /\ rateLimitedAt' = IF msg \in RateLimitErrors
                        THEN [rateLimitedAt EXCEPT ![Registry[req[r].idx].name] = now]
                        ELSE rateLimitedAt
    /\ rateLimitedBy' = IF msg \in RateLimitErrors
                        THEN [rateLimitedBy EXCEPT ![Registry[req[r].idx].name] = "generate"]
                        ELSE rateLimitedBy

\* the value of sessionId after the destructuring default of the routes
sessionIdOf(bodySessionId) ==
    IF bodySessionId = undefined THEN "default" ELSE bodySessionId

\* chatSessions.get(sessionId) as the local variable chat
storedChat(sessions, sessionId) ==
    IF sessions[sessionId] = 0 THEN NoChat ELSE ChatRef(sessions[sessionId])

\* POST /api/chat with a message, up to the first provider call
StartChat(r, bodySessionId) ==
    /\ httpRes' = NoRes
    /\ CanStart(r)
    /\ LET sessionId == sessionIdOf(bodySessionId)
           chat == storedChat(chatSessions, sessionId)
           L == chatLoop(1, modelStats, << >>, chat, chatObjs, now)
           rec == [IdleReq EXCEPT !.op = "chat", !.sessionId = sessionId,
                      !.message = started + 1, !.chat = L.chat,
                      !.startHistory = IF chat.kind = "ref"
                                       THEN chatObjs[chat.id].history ELSE << >>,
                      !.startModel = chatModelName(chat, chatObjs),
                      !.prevTurn = lastTurn[sessionId]]
       IN  /\ modelStats' = L.stats
           /\ req' = [req EXCEPT ![r] =
                  IF L.idx = 0
                  THEN Thrown(rec, L.log, chatExhausted(undefined))
                  ELSE [rec EXCEPT !.pc = "await", !.idx = L.idx, !.log = L.log]]
    /\ started' = started + 1
    /\ UNCHANGED <<now, chatSessions, chatObjs, lastTurn, responses, rateLimitedAt,
                   rateLimitedBy>>

\* the provider call of chatWithFallback returns a reply; the route stores
\* result.chat when it is not null
ChatCallSucceeds(r) ==
    /\ httpRes' = NoRes
    /\ req[r].pc = "await"
    /\ responses' = responses + 1
    /\ req[r].op = "chat"
    /\ LET i == req[r].idx
           chat == req[r].chat
           sessionId == req[r].sessionId
           res == chatResult(i)
           sent == chatSent(i, chat, chatObjs, req[r].message)
           id == IF chat.kind = "ref" THEN chat.id ELSE Len(chatObjs) + 1
       IN  /\ req' = [req EXCEPT ![r].pc = "done", ![r].idx = 0,
                              ![r].statusCode = 200,
                              ![r].modelUsed = res.modelUsed,
                              ![r].provider = res.provider,
                              ![r].sent = sent,
                              ![r].chat = NoChat,
                              ![r].log = Append(@, Entry(i, "ok", undefined))]
           /\ lastTurn' = [lastTurn EXCEPT ![sessionId] =
                              [modelName |-> res.modelUsed, sentLen |-> Len(sent)]]
           /\ IF Registry[i].provider = "groq"
              THEN UNCHANGED <<chatSessions, chatObjs>>
              ELSE /\ chatObjs' =
                        IF chat.kind = "ref"
                        THEN [chatObjs EXCEPT ![id].history =
                                 sendMessageOk(chat, chatObjs, req[r].message)]
                        ELSE Append(chatObjs,
                                 [modelName |-> chat.modelName,
                                  history |-> sendMessageOk(chat, chatObjs, req[r].message)])
                   /\ chatSessions' = [chatSessions EXCEPT ![sessionId] = id]
    /\ UNCHANGED <<now, modelStats, started, rateLimitedAt, rateLimitedBy>>

\* mutant: the fresh dialogue of the next candidate is stored before its call
ChatCallFails_storesFresh(r, msg) ==
    /\ httpRes' = NoRes
    /\ req[r].pc = "await"
    /\ responses' = responses + 1
    /\ req[r].op = "chat"
    /\ LET i == req[r].idx
           s1 == chatCatch(modelStats, Registry[i].name, msg, now)
           L == chatLoop(i + 1, s1, Append(req[r].log, Entry(i, "fail", msg)),
                         req[r].chat, chatObjs, now)
           rec == [req[r] EXCEPT !.lastError = msg, !.chat = L.chat,
                      !.sent = chatSent(i, req[r].chat, chatObjs, req[r].message)]
       IN  /\ modelStats' = L.stats
           /\ req' = [req EXCEPT ![r] =
                  IF L.idx = 0
                  THEN Thrown(rec, L.log, chatExhausted(msg))
                  ELSE [rec EXCEPT !.idx = L.idx, !.log = L.log,
                                   !.chat = IF L.chat.kind = "fresh"
                                            THEN ChatRef(Len(chatObjs) + 1)
                                            ELSE L.chat]]
           /\ IF L.idx # 0 /\ L.chat.kind = "fresh"
              THEN /\ chatObjs' = Append(chatObjs,
                          [modelName |-> L.chat.modelName, history |-> Priming])
                   /\ chatSessions' = [chatSessions EXCEPT
                          ![req[r].sessionId] = Len(chatObjs) + 1]
              ELSE UNCHANGED <<chatSessions, chatObjs>>
    /\ UNCHANGED <<now, started, lastTurn>>
    /\ rateLimitedAt' = IF msg \in RateLimitErrors
                        THEN [rateLimitedAt EXCEPT ![Registry[req[r].idx].name] = now]
                        ELSE rateLimitedAt
    /\ rateLimitedBy' = IF msg \in RateLimitErrors
                        THEN [rateLimitedBy EXCEPT ![Registry[req[r].idx].name] = "chat"]
                        ELSE rateLimitedBy

\* the provider call of chatWithFallback throws an error with message msg
ChatCallFails(r, msg) ==
    /\ httpRes' = NoRes
    /\ req[r].pc = "await"
    /\ responses' = responses + 1
    /\ req[r].op = "chat"
    /\ LET i == req[r].idx
           s1 == chatCatch(modelStats, Registry[i].name, msg, now)
           L == chatLoop(i + 1, s1, Append(req[r].log, Entry(i, "fail", msg)),
                         req[r].chat, chatObjs, now)
           rec == [req[r] EXCEPT !.lastError = msg, !.chat = L.chat,
                      !.sent = chatSent(i, req[r].chat, chatObjs, req[r].message)]
       IN  /\ modelStats' = L.stats
           /\ req' = [req EXCEPT ![r] =
                  IF L.idx = 0
                  THEN Thrown(rec, L.log, chatExhausted(msg))
                  ELSE [rec EXCEPT !.idx = L.idx, !.log = L.log]]
    /\ UNCHANGED <<now, chatSessions, chatObjs, started, lastTurn>>
    /\ rateLimitedAt' = IF msg \in RateLimitErrors
                        THEN [rateLimitedAt EXCEPT ![Registry[req[r].idx].name] = now]
                        ELSE rateLimitedAt
    /\ rateLimitedBy' = IF msg \in RateLimitErrors
                        THEN [rateLimitedBy EXCEPT ![Registry[req[r].idx].name] = "chat"]
                        ELSE rateLimitedBy

\* mutant: the sessionId of the body is ignored
ClearChat_ignoresId(bodySessionId) ==
    /\ httpRes' = NoRes
    /\ chatSessions' = [chatSessions EXCEPT !["default"] = 0]
    /\ lastTurn' = [lastTurn EXCEPT !["default"] =
                       [modelName |-> undefined, sentLen |-> 0]]
    /\ UNCHANGED <<now, modelStats, chatObjs, req, started, responses, rateLimitedAt,
                   rateLimitedBy>>

\* POST /api/clear-chat
ClearChat(bodySessionId) ==
    /\ httpRes' = NoRes
    /\ chatSessions' = [chatSessions EXCEPT ![sessionIdOf(bodySessionId)] = 0]
    /\ lastTurn' = [lastTurn EXCEPT ![sessionIdOf(bodySessionId)] =
                       [modelName |-> undefined, sentLen |-> 0]]
    /\ UNCHANGED <<now, modelStats, chatObjs, req, started, responses, rateLimitedAt,
                   rateLimitedBy>>

\* chatSessions.size
size(sessions) == Cardinality({k \in SessionIds : sessions[k] # 0})

\* mutant: the count is read after the store was emptied
ClearAllChats_countAfter ==
    /\ httpRes' = [statusCode |-> 200, message |-> "Cleared count chat sessions",
                   count |-> 0, models |-> << >>]
    /\ chatSessions' = [k \in SessionIds |-> 0]
    /\ lastTurn' = [k \in SessionIds |-> [modelName |-> undefined, sentLen |-> 0]]
    /\ UNCHANGED <<now, modelStats, chatObjs, req, started, responses, rateLimitedAt,
                   rateLimitedBy>>

\* POST /api/clear-all-chats
ClearAllChats ==
    /\ httpRes' = [statusCode |-> 200, message |-> "Cleared count chat sessions",
                   count |-> size(chatSessions), models |-> << >>]
    /\ chatSessions' = [k \in SessionIds |-> 0]
    /\ lastTurn' = [k \in SessionIds |-> [modelName |-> undefined, sentLen |-> 0]]
    /\ UNCHANGED <<now, modelStats, chatObjs, req, started, responses, rateLimitedAt,
                   rateLimitedBy>>

\* mutant: the percentage is cut after two decimals, not rounded
toFixed_floor(num, den) == (num * 10000) \div den

\* (num / den * 100).toFixed(2), in hundredths of a percent: the quotient
\* rounded to two decimals (no tie occurs for den <= MaxAttempts + 1)
toFixed(num, den) == (2 * num * 10000 + den) \div (2 * den)

\* the successRate field of GET /api/model-stats: a percentage, or 'N/A'
successRate(value) ==
    IF value.attempts > 0
    THEN [text |-> "%", hundredths |-> toFixed(value.attempts - value.failures,
                                                value.attempts)]
    ELSE [text |-> "N/A", hundredths |-> 0]

\* the object stats of GET /api/model-stats
snapshot(stats) ==
    [n \in ModelNames |->
        [ attempts |-> stats[n].attempts, failures |-> stats[n].failures,
          lastFailure |-> stats[n].lastFailure,
          rateLimitHits |-> stats[n].rateLimitHits,
          successRate |-> successRate(stats[n]) ]]

\* GET /api/model-stats
GetModelStats ==
    /\ httpRes' = [statusCode |-> 200, message |-> undefined, count |-> 0,
                   models |-> snapshot(modelStats)]
    /\ UNCHANGED <<now, modelStats, chatSessions, chatObjs, req, started, lastTurn,
                   responses, rateLimitedAt, rateLimitedBy>>

\* the routes that validate a required field of the body, with the message
\* of the AppError they throw when it is missing
Required ==
    [ chat |-> "Message is required",
      analyzeSymptoms |-> "Symptoms are required",
      summarizeReport |-> "Report text is required",
      medicineInfo |-> "Medicine name is required",
      readPrescription |-> "Image data is required" ]
Routes == DOMAIN Required

\* values of the required field: missing, empty, or a text
FieldValues == {"missing", "", "text"}
\* JavaScript's !field
Falsy(field) == field \in {"missing", ""}

\* mutant: the first candidate's attempt is counted before the validation
Rejected_afterAttempt(route, field) ==
    /\ Falsy(field)
    /\ httpRes' = [statusCode |-> 400, message |-> Required[route], count |-> 0,
                   models |-> << >>]
    /\ modelStats' = [modelStats EXCEPT ![Registry[1].name].attempts = @ + 1]
    /\ UNCHANGED <<now, chatSessions, chatObjs, req, started, lastTurn,
                   responses, rateLimitedAt,
                   rateLimitedBy>>

\* A request to one of these routes whose required field is falsy: the
\* handler throws AppError(..., 400) at once and the error handler answers.
Rejected(route, field) ==
    /\ Falsy(field)
    /\ httpRes' = [statusCode |-> 400, message |-> Required[route], count |-> 0,
                   models |-> << >>]
    /\ UNCHANGED <<now, modelStats, chatSessions, chatObjs, req, started, lastTurn,
                   responses, rateLimitedAt,
                   rateLimitedBy>>

\* The client of request r goes away while a provider call of the request
\* is in flight: Node marks the request as aborted.  No handler listens for
\* it, so the awaiting code goes on when the provider answers.
Abort(r) ==
    /\ httpRes' = NoRes
    /\ req[r].pc = "await"
    /\ ~req[r].aborted
    /\ req' = [req EXCEPT ![r].aborted = TRUE]
    /\ UNCHANGED <<now, modelStats, chatSessions, chatObjs, started, lastTurn,
                   responses, rateLimitedAt, rateLimitedBy>>

\* time passes between two steps of the event loop
Tick(d) ==
    /\ httpRes' = NoRes
    /\ now + d <= MaxNow
    /\ now' = now + d
    /\ UNCHANGED <<modelStats, chatSessions, chatObjs, req, started, lastTurn, responses, rateLimitedAt,
                   rateLimitedBy>>

\* The fallback loops under every interleaving of requests, failures and
\* the clock.  Chat requests name no session, so clear-chat of 'default'
\* empties the store here; clear-all-chats is part of NextSessions.
\* Provider calls answered in one behaviour stay below MaxResponses.
Next ==
    \/ \E r \in Reqs, imageParts \in BOOLEAN :
           StartGenerate(r, imageParts, RouteConfig(imageParts))
    \/ \E r \in Reqs : responses < MaxResponses /\ GenerateCallSucceeds(r)
    \/ \E r \in Reqs, msg \in ErrorMessages :
           responses < MaxResponses /\ GenerateCallFails(r, msg)
    \/ \E r \in Reqs, sid \in ChatBodySessionIds : StartChat(r, sid)
    \/ \E r \in Reqs : responses < MaxResponses /\ ChatCallSucceeds(r)
    \/ \E r \in Reqs, msg \in ErrorMessages :
           responses < MaxResponses /\ ChatCallFails(r, msg)
    \/ \E sid \in BodySessionIds : ClearChat(sid)
    \/ \E d \in {CooldownMs - 1, CooldownMs} : Tick(d)

Spec == Init /\ [][Next]_vars

\* The chat routes alone, with requests that name either sessionId, all
\* within one cooldown window (the clock stands still).
NextSessions ==
    \/ \E r \in Reqs, sid \in BodySessionIds : StartChat(r, sid)
    \/ \E r \in Reqs : responses < MaxChatResponses /\ ChatCallSucceeds(r)
    \/ \E r \in Reqs, msg \in ErrorMessages :
           responses < MaxChatResponses /\ ChatCallFails(r, msg)
    \/ \E sid \in BodySessionIds : ClearChat(sid)
    \/ ClearAllChats

SpecSessions == Init /\ [][NextSessions]_vars

\* Requests with and without their required field, within one cooldown
\* window; the plain-generation requests are those of analyze-symptoms.
NextValidation ==
    \/ \E r \in Reqs : StartGenerate(r, FALSE, RouteConfig(FALSE))
    \/ \E r \in Reqs : responses < MaxResponses /\ GenerateCallSucceeds(r)
    \/ \E r \in Reqs, msg \in ErrorMessages :
           responses < MaxResponses /\ GenerateCallFails(r, msg)
    \/ \E r \in Reqs, sid \in ChatBodySessionIds : StartChat(r, sid)
    \/ \E r \in Reqs : responses < MaxResponses /\ ChatCallSucceeds(r)
    \/ \E r \in Reqs, msg \in ErrorMessages :
           responses < MaxResponses /\ ChatCallFails(r, msg)
    \/ \E route \in Routes, field \in FieldValues : Rejected(route, field)

SpecValidation == Init /\ [][NextValidation]_vars

\* Plain-generation requests with any overrides: each of temperature and
\* maxOutputTokens missing, 0 or another value.
OverrideKeys == {"temperature", "maxOutputTokens"}
OverrideValues == {0, 50}
Overrides == UNION {[keys -> OverrideValues] : keys \in SUBSET OverrideKeys}

NextConfig ==
    \/ \E r \in Reqs, imageParts \in BOOLEAN, customConfig \in Overrides :
           StartGenerate(r, imageParts, customConfig)
    \/ \E r \in Reqs : responses < MaxResponses /\ GenerateCallSucceeds(r)
    \/ \E r \in Reqs, msg \in ErrorMessages :
           responses < MaxResponses /\ GenerateCallFails(r, msg)

SpecConfig == Init /\ [][NextConfig]_vars

\* Requests whose client may go away while a provider call is in flight,
\* within one cooldown window.
NextAbort ==
    \/ \E r \in Reqs : StartGenerate(r, FALSE, RouteConfig(FALSE))
    \/ \E r \in Reqs : responses < MaxResponses /\ GenerateCallSucceeds(r)
    \/ \E r \in Reqs, msg \in ErrorMessages :
           responses < MaxResponses /\ GenerateCallFails(r, msg)
    \/ \E r \in Reqs, sid \in ChatBodySessionIds : StartChat(r, sid)
    \/ \E r \in Reqs : responses < MaxResponses /\ ChatCallSucceeds(r)
    \/ \E r \in Reqs, msg \in ErrorMessages :
           responses < MaxResponses /\ ChatCallFails(r, msg)
    \/ \E r \in Reqs : Abort(r)

SpecAbort == Init /\ [][NextAbort]_vars

\* the provider call request r waits for returns, with a result or an error
Returns(r) ==
    \/ GenerateCallSucceeds(r)
    \/ ChatCallSucceeds(r)
    \/ \E msg \in ErrorMessages : GenerateCallFails(r, msg)
    \/ \E msg \in ErrorMessages : ChatCallFails(r, msg)

\* the second request may arrive while the first is in flight; a later one
\* arrives when no request waits for a provider call
Arrives == started = 1 \/ \A q \in Reqs : req[q].pc # "await"

\* Requests whose provider calls all return in the end, within one cooldown
\* window: each provider client ends a call that hangs with a timeout error.
NextLive ==
    \/ \E r \in Reqs : Arrives /\ StartGenerate(r, FALSE, RouteConfig(FALSE))
    \/ \E r \in Reqs, sid \in ChatBodySessionIds : Arrives /\ StartChat(r, sid)
    \/ \E r \in Reqs : Returns(r)

SpecLive == Init /\ [][NextLive]_vars /\ \A r \in Reqs : WF_vars(Returns(r))

\* ---------------------------------------------- the stats snapshot
\* stats of one model as the loops leave them: failures never exceed
\* attempts, each up to MaxAttempts
SnapshotInputs ==
    UNION { { [ attempts |-> a, failures |-> f,
                lastFailure |-> IF f = 0 THEN null ELSE 1,
                rateLimitHits |-> f ] : f \in 0..a } : a \in 0..MaxAttempts }

\* the server with no request in flight and any of these stats per model
InitSnapshot ==
    /\ now = 1
    /\ modelStats \in [ModelNames -> SnapshotInputs]
    /\ chatSessions = [k \in SessionIds |-> 0]
    /\ chatObjs = << >>
    /\ req = [r \in Reqs |-> IdleReq]
    /\ started = 0
    /\ responses = 0
    /\ lastTurn = [k \in SessionIds |-> [modelName |-> undefined, sentLen |-> 0]]
    /\ rateLimitedAt = [n \in ModelNames |-> modelStats[n].lastFailure]
    /\ rateLimitedBy = [n \in ModelNames |->
           IF modelStats[n].lastFailure = null THEN "none" ELSE "generate"]
    /\ httpRes = NoRes

NextSnapshot == GetModelStats

SpecSnapshot == InitSnapshot /\ [][NextSnapshot]_vars

\* ---------------------------------------------- routing as a function
\* stats of one model as a request may find them: never used, or rate
\* limited once, at time 1 or at time CooldownMs
StatsInputs ==
    { [attempts |-> 0, failures |-> 0, lastFailure |-> null, rateLimitHits |-> 0],
      [attempts |-> 1, failures |-> 1, lastFailure |-> 1, rateLimitHits |-> 1],
      [attempts |-> 1, failures |-> 1, lastFailure |-> CooldownMs, rateLimitHits |-> 1] }

\* the server at time CooldownMs or one millisecond later, with no request
\* in flight and no session stored, and any of these stats per model
InitRouting ==
    /\ now \in {CooldownMs, CooldownMs + 1}
    /\ modelStats \in [ModelNames -> StatsInputs]
    /\ chatSessions = [k \in SessionIds |-> 0]
    /\ chatObjs = << >>
    /\ req = [r \in Reqs |-> IdleReq]
    /\ started = 0
    /\ responses = 0
    /\ lastTurn = [k \in SessionIds |-> [modelName |-> undefined, sentLen |-> 0]]
    /\ rateLimitedAt = [n \in ModelNames |-> modelStats[n].lastFailure]
    /\ rateLimitedBy = [n \in ModelNames |->
           IF modelStats[n].lastFailure = null THEN "none" ELSE "generate"]
    /\ httpRes = NoRes

\* the request record of a request that ran to its end as R
Ran(op, imageParts, R) ==
    [IdleReq EXCEPT !.pc = "done", !.op = op, !.imageParts = imageParts,
                    !.sessionId = IF op = "chat" THEN "default" ELSE undefined,
                    !.message = 1, !.log = R.log, !.statusCode = R.statusCode,
                    !.error = R.error, !.modelUsed = R.modelUsed,
                    !.provider = R.provider]

\* one call of generateWithFallback whose provider calls are answered at
\* once, as outcome says
RunGenerate(imageParts, outcome) ==
    /\ started = 0
    /\ LET R == generateRun(1, modelStats, << >>, undefined, imageParts, outcome, now)
       IN  /\ modelStats' = R.stats
           /\ req' = [req EXCEPT ![1] = Ran("generate", imageParts, R)]
    /\ started' = 1
    /\ httpRes' = NoRes
    /\ UNCHANGED <<now, chatSessions, chatObjs, responses, lastTurn, rateLimitedAt,
                   rateLimitedBy>>

\* one POST /api/chat without sessionId, answered in the same way
RunChat(outcome) ==
    /\ started = 0
    /\ LET R == chatRun(1, modelStats, << >>, undefined,
                        storedChat(chatSessions, "default"), chatObjs, outcome, now)
       IN  /\ modelStats' = R.stats
           /\ req' = [req EXCEPT ![1] = Ran("chat", FALSE, R)]
           /\ IF R.chat = NoChat
              THEN UNCHANGED <<chatSessions, chatObjs>>
              ELSE /\ chatObjs' = Append(chatObjs,
                          [modelName |-> R.chat.modelName,
                           history |-> sendMessageOk(R.chat, chatObjs, 1)])
                   /\ chatSessions' = [chatSessions EXCEPT !["default"] = Len(chatObjs) + 1]
    /\ started' = 1
    /\ httpRes' = NoRes
    /\ UNCHANGED <<now, responses, lastTurn, rateLimitedAt,
                   rateLimitedBy>>

NextRouting ==
    \/ \E imageParts \in BOOLEAN, outcome \in Outcomes : RunGenerate(imageParts, outcome)
    \/ \E outcome \in Outcomes : RunChat(outcome)

SpecRouting == InitRouting /\ [][NextRouting]_vars

\* ====================================================== properties
\* request r issues a provider call to candidate i in this step
Invokes(r, i) ==
    /\ req'[r].pc = "await"
    /\ req'[r].idx = i
    /\ ~(req[r].pc = "await" /\ req[r].idx = i)

\* the entries request r adds to its log in this step: those of a new
\* request in r's slot, or those added to the log of the request in flight
NewEntries(r) ==
    IF req'[r] = req[r]
    THEN {}
    ELSE IF req[r].pc = "await"
    THEN (Len(req[r].log) + 1)..Len(req'[r].log)
    ELSE 1..Len(req'[r].log)

\* request r skips candidate i in this step
Skips(r, i) ==
    /\ i \in NewEntries(r)
    /\ req'[r].log[i].i = i
    /\ req'[r].log[i].ev \in {"cooldown", "image"}

\* the provider call of request r to candidate i fails with msg in this step
FailsWith(r, i, msg) ==
    /\ i \in NewEntries(r)
    /\ req'[r].log[i] = Entry(i, "fail", msg)

Succeeded(r) == req[r].pc = "done" /\ req[r].statusCode = 200
Exhausted(r) == req[r].pc = "done" /\ req[r].statusCode = 503

\* every candidate the request has examined so far has one log entry, in
\* registry order; the candidate being called is the next one
InOrder(r) ==
    /\ \A j \in 1..Len(req[r].log) : req[r].log[j].i = j
    /\ req[r].pc = "await" => req[r].idx = Len(req[r].log) + 1

\* C1: a request whose provider call to some candidate succeeds returns
\* that candidate's result; every candidate before it was skipped or failed
\* (so it is the first that is not cooling down, compatible and succeeds),
\* and no candidate after it is examined or invoked in that request.
C1_FirstSuccessWins ==
    \A r \in Reqs :
        /\ InOrder(r)
        /\ \A j \in 1..Len(req[r].log) :
               req[r].log[j].ev = "ok" =>
                   /\ j = Len(req[r].log)
                   /\ Succeeded(r)
                   /\ req[r].modelUsed = MODEL_PRIORITY[j].name
                   /\ req[r].provider = MODEL_PRIORITY[j].provider
        /\ Succeeded(r) =>
               /\ Len(req[r].log) >= 1
               /\ req[r].log[Len(req[r].log)].ev = "ok"
        /\ Exhausted(r) => \A j \in 1..Len(req[r].log) : req[r].log[j].ev # "ok"

\* a request served by its second candidate after a skip or a failure of
\* the first, with a later candidate left untouched
C1_Witness ==
    \E r \in Reqs :
        /\ Succeeded(r)
        /\ Len(req[r].log) = 2
        /\ req[r].log[1].ev \in {"cooldown", "fail"}
        /\ NModels > 2

\* C2: no request, plain or chat, issues a provider call to a model whose
\* most recent rate-limit failure is less than 60 seconds old.
C2_NoCallInsideWindow ==
    [][ \A r \in Reqs : req'[r] # req[r] => \A i \in Cands :
            Invokes(r, i) =>
                ~( /\ rateLimitedAt'[MODEL_PRIORITY[i].name] # 0
                   /\ now' - rateLimitedAt'[MODEL_PRIORITY[i].name] < 60000 ) ]_vars

\* a chat request skips a model 59999 ms after its last rate-limit failure
C2_Witness ==
    \E n \in ModelNames :
        /\ modelStats[n].rateLimitHits >= 1
        /\ now - rateLimitedAt[n] = 59999
        /\ \E r \in Reqs : \E j \in 1..Len(req[r].log) :
               /\ req[r].op = "chat"
               /\ req[r].log[j].ev = "cooldown"
               /\ MODEL_PRIORITY[req[r].log[j].i].name = n

\* C3 (as claimed): a skip, for cooldown or for an image on Groq, leaves
\* the candidate's attempts, failures and rateLimitHits as they were.
C3_SkipRecordsNoAttempt ==
    [][ \A r \in Reqs : req'[r] # req[r] => \A i \in Cands :
            Skips(r, i) =>
                LET n == MODEL_PRIORITY[i].name
                IN  /\ modelStats'[n].attempts = modelStats[n].attempts
                    /\ modelStats'[n].failures = modelStats[n].failures
                    /\ modelStats'[n].rateLimitHits = modelStats[n].rateLimitHits ]_vars

\* C4: failures <= attempts and rateLimitHits <= failures for every model,
\* in every reachable state, requests interleaving or not.
C4_StatsInvariant ==
    \A n \in ModelNames :
        /\ modelStats[n].failures <= modelStats[n].attempts
        /\ modelStats[n].rateLimitHits <= modelStats[n].failures

\* two requests in flight at once after a model has failed twice, once
\* with a rate-limit error
C4_Witness ==
    /\ \A r \in Reqs : req[r].pc = "await"
    /\ \E n \in ModelNames :
           /\ modelStats[n].failures = 2
           /\ modelStats[n].rateLimitHits = 1

\* the candidate examined after candidate i in request r, in the state
\* after this step: candidate i + 1, skipped, failed or being called
GoesOn(r, i) ==
    i < NModels =>
        \/ /\ Len(req'[r].log) > i
           /\ req'[r].log[i + 1].i = i + 1
        \/ /\ req'[r].pc = "await"
           /\ req'[r].idx = i + 1

C6_RateLimitFailure ==
    [][ \A r \in Reqs : req'[r] # req[r] => \A i \in Cands :
            LET n == MODEL_PRIORITY[i].name
            IN  /\ Invokes(r, i) =>
                       modelStats'[n].attempts = modelStats[n].attempts + 1
                /\ \A msg \in RateLimitErrors :
                       FailsWith(r, i, msg) =>
                           /\ modelStats'[n].attempts = modelStats[n].attempts
                           /\ modelStats'[n].failures = modelStats[n].failures + 1
                           /\ modelStats'[n].rateLimitHits = modelStats[n].rateLimitHits + 1
                           /\ modelStats'[n].lastFailure = now
                           /\ GoesOn(r, i)
                /\ ( /\ started' = 1
                     /\ i = 1
                     /\ req'[r].pc = "done"
                     /\ Len(req'[r].log) = 2
                     /\ req'[r].log[1].ev = "fail"
                     /\ req'[r].log[1].err \in RateLimitErrors
                     /\ req'[r].log[2].ev = "ok" ) =>
                       /\ req'[r].modelUsed = MODEL_PRIORITY[2].name
                       /\ modelStats'[n].attempts = 1
                       /\ modelStats'[n].failures = 1
                       /\ modelStats'[n].rateLimitHits = 1 ]_vars

\* scenario A: the only request so far was rate-limited on the first
\* candidate and served by the second
C6_Witness ==
    \E r \in Reqs :
        /\ started = 1
        /\ Succeeded(r)
        /\ Len(req[r].log) = 2
        /\ req[r].log[1].ev = "fail"
        /\ req[r].log[1].err \in RateLimitErrors
        /\ req[r].modelUsed = MODEL_PRIORITY[2].name

\* C7: a provider call that fails with another error raises failures by
\* one and leaves rateLimitHits and lastFailure alone; a candidate is
\* skipped for cooldown only after a rate-limit failure, so a request that
\* starts while the first candidate never had one calls it; from fresh
\* stats, a request whose calls all fail this way ends in exhaustion with
\* failures = 1 and rateLimitHits = 0 on every model it called.
C7_OrdinaryFailure ==
    [][ \A r \in Reqs : req'[r] # req[r] => \A i \in Cands :
            LET n == MODEL_PRIORITY[i].name
            IN  /\ \A msg \in ErrorMessages \ RateLimitErrors :
                       FailsWith(r, i, msg) =>
                           /\ modelStats'[n].failures = modelStats[n].failures + 1
                           /\ modelStats'[n].rateLimitHits = modelStats[n].rateLimitHits
                           /\ modelStats'[n].lastFailure = modelStats[n].lastFailure
                           /\ GoesOn(r, i)
                /\ (Skips(r, i) /\ req'[r].log[i].ev = "cooldown") =>
                       rateLimitedAt'[n] # 0
                /\ ( /\ started' = started + 1
                     /\ req'[r].message = started'
                     /\ i = 1
                     /\ rateLimitedAt[n] = 0 ) =>
                       /\ req'[r].pc = "await"
                       /\ req'[r].idx = 1
                /\ ( /\ started' = 1
                     /\ req'[r].pc = "done"
                     /\ req'[r].statusCode = 503
                     /\ \A j \in 1..Len(req'[r].log) :
                            req'[r].log[j].ev = "fail" =>
                                req'[r].log[j].err \notin RateLimitErrors
                     /\ \E j \in 1..Len(req'[r].log) :
                            /\ req'[r].log[j].i = i
                            /\ req'[r].log[j].ev = "fail" ) =>
                       /\ modelStats'[n].failures = 1
                       /\ modelStats'[n].rateLimitHits = 0
                       /\ modelStats'[n].lastFailure = null ]_vars

\* the request after one whose call to the first candidate failed with an
\* ordinary error is calling that candidate again
C7_Witness ==
    \E r \in Reqs :
        /\ started = 2
        /\ req[r].message = 2
        /\ req[r].pc = "await"
        /\ req[r].idx = 1
        /\ modelStats[MODEL_PRIORITY[1].name].failures = 1
        /\ modelStats[MODEL_PRIORITY[1].name].rateLimitHits = 0
        /\ \A q \in Reqs : q # r => req[q].statusCode = 503

\* C8: a request ends with the 503 error only after every candidate of the
\* registry was skipped or was called and failed in that request; a failed
\* provider call never ends the request early or with another status: the
\* next candidate is examined.
C8_OnlyExhaustionFails ==
    \A r \in Reqs :
        /\ req[r].statusCode \in {0, 200, 503}
        /\ InOrder(r)
        /\ Exhausted(r) =>
               /\ Len(req[r].log) = NModels
               /\ \A j \in 1..NModels :
                      req[r].log[j].ev \in {"cooldown", "image", "fail"}
        /\ \A j \in 1..Len(req[r].log) :
               req[r].log[j].ev = "fail" =>
                   IF j < NModels
                   THEN \/ Len(req[r].log) > j
                        \/ req[r].pc = "await" /\ req[r].idx = j + 1
                   ELSE Exhausted(r)

\* an exhausted request that skipped one candidate and failed on another
C8_Witness ==
    \E r \in Reqs :
        /\ Exhausted(r)
        /\ \E j \in 1..Len(req[r].log) : req[r].log[j].ev = "cooldown"
        /\ \E j \in 1..Len(req[r].log) : req[r].log[j].ev = "fail"

\* the message of the last provider error of request r ("" when no call failed)
LastProviderError(r) ==
    LET fails == {j \in 1..Len(req[r].log) : req[r].log[j].ev = "fail"}
    IN  IF fails = {} THEN undefined
        ELSE req[r].log[CHOOSE j \in fails : \A k \in fails : k <= j].err

\* C9 (as claimed): the failure of an exhausted request, plain or chat,
\* carries the most recent provider error of that request.
C9_ExhaustionCarriesLastError ==
    \A r \in Reqs :
        (Exhausted(r) /\ LastProviderError(r) # undefined) =>
            \E k \in 1..Len(req[r].error.message) :
                req[r].error.message[k] = LastProviderError(r)

IsPrefix(a, b) ==
    /\ Len(a) <= Len(b)
    /\ \A j \in 1..Len(a) : a[j] = b[j]

\* the model that served request r was the first candidate it called
FirstAvailable(r) ==
    \A j \in 1..Len(req[r].log) :
        j < Len(req[r].log) => req[r].log[j].ev = "cooldown"

\* C10: a chat turn served by the model that served the previous turn of
\* the same sessionId (as first available candidate, no clear in between)
\* is sent on the dialogue stored for that sessionId: what the provider sees
\* extends the stored history and is not shorter than in the previous turn.
C10_SameModelContinues ==
    \A r \in Reqs :
        (req[r].op = "chat" /\ Succeeded(r) /\ FirstAvailable(r)) =>
            /\ req[r].startModel = req[r].modelUsed =>
                   /\ IsPrefix(req[r].startHistory, req[r].sent)
                   /\ Len(req[r].sent) > Len(req[r].startHistory)
            /\ req[r].prevTurn.modelName = req[r].modelUsed =>
                   Len(req[r].sent) >= req[r].prevTurn.sentLen

\* the second turn of a sessionId, served by the Gemini model that served
\* the first: the provider sees the priming turns, the first exchange and
\* the new message
C10_Witness ==
    \E r \in Reqs :
        /\ req[r].op = "chat"
        /\ Succeeded(r)
        /\ FirstAvailable(r)
        /\ req[r].prevTurn.modelName = req[r].modelUsed
        /\ req[r].startModel = req[r].modelUsed
        /\ Len(req[r].startHistory) = 4
        /\ Len(req[r].sent) = 5

\* the provider call of chat request r is answered with a reply in this step
ChatServed(r) ==
    /\ req[r].op = "chat"
    /\ req[r].pc = "await"
    /\ req'[r].pc = "done"
    /\ req'[r].statusCode = 200

\* the user message of request r and the reply to it
Exchange(r) == << Turn("user", req[r].message), Turn("model", req[r].message) >>

\* the session stored for sessionId k is bound to model n
BoundTo(sessions, objs, k, n) ==
    /\ sessions[k] # 0
    /\ objs[sessions[k]].modelName = n

\* C11 (as claimed): a chat turn served by a model other than the one the
\* stored session of its sessionId is bound to leaves, for that sessionId, a
\* fresh dialogue bound to the serving model that holds the priming turns and
\* the new exchange only, whatever the provider of the serving model.
C11_SwitchStoresFreshDialogue ==
    [][ \A r \in Reqs :
            ( /\ ChatServed(r)
              /\ req[r].startModel # undefined
              /\ BoundTo(chatSessions, chatObjs, req[r].sessionId, req[r].startModel)
              /\ req'[r].modelUsed # req[r].startModel ) =>
                /\ BoundTo(chatSessions', chatObjs', req[r].sessionId, req'[r].modelUsed)
                /\ chatObjs'[chatSessions'[req[r].sessionId]].history
                       = Priming \o Exchange(r) ]_vars

\* the step just taken is a clear-all-chats request
ClearedAll == httpRes'.message = "Cleared count chat sessions"

\* the keys that resolve to a session
Held(sessions) == {k \in SessionIds : storedChat(sessions, k) # NoChat}

\* C12: clear-all-chats on a store holding n sessions reports n as the
\* count removed, and right after it every key resolves to absent.
C12_ClearAllReportsCount ==
    [][ ClearedAll =>
            /\ httpRes'.statusCode = 200
            /\ httpRes'.count = Cardinality(Held(chatSessions))
            /\ Held(chatSessions') = {} ]_vars

\* clear-all-chats has just removed the sessions of two keys
C12_Witness ==
    /\ httpRes.message = "Cleared count chat sessions"
    /\ httpRes.count = 2
    /\ Held(chatSessions) = {}

\* C13: clear-chat removes the session of the key it names and nothing else:
\* the sessions of the other keys, the dialogue objects, the model stats and
\* the requests in flight stay as they were; a body without sessionId names
\* 'default'; when the key has no session nothing changes at all.
C13_ClearRemovesOneSession ==
    [][ \A b \in BodySessionIds :
            ClearChat(b) =>
                LET k == IF b = undefined THEN "default" ELSE b
                IN  /\ storedChat(chatSessions', k) = NoChat
                    /\ \A j \in SessionIds \ {k} : chatSessions'[j] = chatSessions[j]
                    /\ modelStats' = modelStats
                    /\ chatObjs' = chatObjs
                    /\ req' = req
                    /\ storedChat(chatSessions, k) = NoChat =>
                           chatSessions' = chatSessions ]_vars

\* two requests stored a session each, under different keys, and the one
\* stored last has been cleared while the other is still held
C13_Witness ==
    \E k, j \in SessionIds :
        /\ k # j
        /\ started = 2
        /\ Len(chatObjs) = 2
        /\ chatSessions[j] = 1
        /\ chatSessions[k] = 0
        /\ \E r \in Reqs :
               /\ req[r].sessionId = k
               /\ Succeeded(r)
               /\ req[r].provider = "gemini"

\* C14: a request without its required field (message, symptoms,
\* reportText, medicineName, imageBase64) is answered with status 400 before
\* the registry is consulted: no provider call is issued, and the model
\* stats and the chat session store stay as they were.
C14_MissingFieldRejected ==
    [][ \A route \in Routes, field \in FieldValues :
            Rejected(route, field) =>
                /\ httpRes'.statusCode = 400
                /\ httpRes'.message = Required[route]
                /\ \A r \in Reqs, i \in Cands : ~Invokes(r, i)
                /\ req' = req
                /\ modelStats' = modelStats
                /\ chatSessions' = chatSessions
                /\ chatObjs' = chatObjs ]_vars

\* a chat request without message has just been rejected while a session
\* is stored, a model has recorded a failure and a provider call is in flight
C14_Witness ==
    /\ httpRes.statusCode = 400
    /\ httpRes.message = "Message is required"
    /\ Held(chatSessions) # {}
    /\ \E n \in ModelNames : modelStats[n].failures >= 1
    /\ \E r \in Reqs : req[r].pc = "await"

\* stats that agree with stats on every lastFailure and differ from it, for
\* the models of B, in attempts, failures and (where there are any)
\* rateLimitHits
Twin(stats, B) ==
    [n \in ModelNames |->
        IF n \in B
        THEN [stats[n] EXCEPT !.attempts = @ + 8, !.failures = @ + 3,
                              !.rateLimitHits = IF @ = 0 THEN 0 ELSE @ + 1]
        ELSE stats[n]]

\* two runs examined the same candidates in the same way and ended alike
SameRouting(a, b) ==
    /\ a.log = b.log
    /\ a.statusCode = b.statusCode
    /\ a.modelUsed = b.modelUsed
    /\ a.provider = b.provider
    /\ a.error = b.error

\* C15: routing does not depend on the counters: from stats that agree on
\* every lastFailure and differ in attempts, failures or rateLimitHits, the
\* same request at the same time with the same provider answers examines,
\* skips and calls the same candidates and ends with the same result.
\* Stated of the stats and the time a request starts from.
C15_RoutingIgnoresCounters ==
    started = 0 =>
        \A B \in SUBSET ModelNames, outcome \in Outcomes :
            LET twin == Twin(modelStats, B)
            IN  /\ \A imageParts \in BOOLEAN :
                       SameRouting(
                           generateRun(1, modelStats, << >>, undefined, imageParts, outcome, now),
                           generateRun(1, twin, << >>, undefined, imageParts, outcome, now))
                /\ SameRouting(
                       chatRun(1, modelStats, << >>, undefined,
                               storedChat(chatSessions, "default"), chatObjs, outcome, now),
                       chatRun(1, twin, << >>, undefined,
                               storedChat(chatSessions, "default"), chatObjs, outcome, now))

\* a request that skipped a cooling model, failed on another and was served
\* by a third
C15_Witness ==
    /\ Succeeded(1)
    /\ \E j \in 1..Len(req[1].log) : req[1].log[j].ev = "cooldown"
    /\ \E j \in 1..Len(req[1].log) : req[1].log[j].ev = "fail"
    /\ \E n \in ModelNames : modelStats[n].failures = 2

\* request r issues a provider call to candidate i in this step: its record
\* changes and then waits for candidate i
CallStarts(r, i) ==
    /\ req'[r] # req[r]
    /\ req'[r].pc = "await"
    /\ req'[r].idx = i

\* C16: within one request the candidates are called one at a time and in
\* registry order: a call starts only when the request has no other call in
\* flight (the one it waited for has failed), no candidate is called twice,
\* and every candidate listed before the one called has been skipped or has
\* failed in that request.
C16_OneAtATimeInOrder ==
    [][ \A r \in Reqs : req'[r] # req[r] => \A i \in Cands :
            CallStarts(r, i) =>
                /\ Len(req'[r].log) = i - 1
                /\ \A j \in 1..(i - 1) :
                       /\ req'[r].log[j].i = j
                       /\ req'[r].log[j].ev \in {"cooldown", "image", "fail"}
                /\ req[r].pc = "await" =>
                       /\ req[r].idx < i
                       /\ req'[r].log[req[r].idx].ev = "fail"
                       /\ Len(req[r].log) = req[r].idx - 1 ]_vars

\* a request is calling its third candidate after it skipped the first,
\* which is cooling down, and its call to the second failed
C16_Witness ==
    \E r \in Reqs :
        /\ req[r].pc = "await"
        /\ req[r].idx = 3
        /\ req[r].log[1].ev = "cooldown"
        /\ req[r].log[2].ev = "fail"

\* the provider call request r waits for is answered with success in this step
Served(r) ==
    /\ req[r].pc = "await"
    /\ req'[r].pc = "done"
    /\ req'[r].statusCode = 200

\* C17: on success the result names the candidate whose provider call
\* succeeded as modelUsed and that candidate's provider as provider, on the
\* plain-generation and on the chat path; the two provider labels the code
\* can return cover the providers of every registry entry.
C17_ResultNamesServingCandidate ==
    /\ \A j \in 1..Len(MODEL_PRIORITY) : MODEL_PRIORITY[j].provider \in {"groq", "gemini"}
    /\ [][ \A r \in Reqs :
               Served(r) =>
                   /\ req'[r].modelUsed = MODEL_PRIORITY[req[r].idx].name
                   /\ req'[r].provider = MODEL_PRIORITY[req[r].idx].provider ]_vars

\* a chat request served by the Groq candidate
C17_Witness ==
    \E r \in Reqs :
        /\ req[r].op = "chat"
        /\ Succeeded(r)
        /\ req[r].modelUsed = "llama-3.3-70b-versatile"
        /\ req[r].provider = "groq"

\* the name under which the provider of candidate i takes the parameter the
\* overrides call key
ParamKey(i, key) ==
    IF MODEL_PRIORITY[i].provider = "groq" /\ key = "maxOutputTokens"
    THEN "max_tokens"
    ELSE key

\* C18 (as claimed): the generation parameters sent with a call use the
\* override value for every key of the request's overrides and the
\* candidate's default for every other key, for every provider and every
\* override value, 0 included.
C18_OverridesWinKeyByKey ==
    [][ \A r \in Reqs : req'[r] # req[r] => \A i \in Cands :
            (CallStarts(r, i) /\ req'[r].op = "generate") =>
                LET customConfig == req'[r].customConfig
                    sent == req'[r].params
                    overridden == {ParamKey(i, key) : key \in DOMAIN customConfig}
                IN  /\ \A key \in DOMAIN customConfig :
                           /\ ParamKey(i, key) \in DOMAIN sent
                           /\ sent[ParamKey(i, key)] = customConfig[key]
                    /\ \A key \in DOMAIN MODEL_PRIORITY[i].config \ overridden :
                           /\ key \in DOMAIN sent
                           /\ sent[key] = MODEL_PRIORITY[i].config[key] ]_vars

\* model n is inside its window: lastFailure is set and less than 60 s old
InWindow(n) ==
    /\ modelStats[n].lastFailure # null
    /\ now - modelStats[n].lastFailure < 60000

\* C19: a candidate a request examines is skipped for cooldown exactly when
\* its lastFailure is set and less than 60 s old; the skip leaves lastFailure
\* alone, so lastFailure stays the time of the model's latest rate-limit
\* failure, and a request that examines the candidate 60 s or more after it
\* calls the candidate again (if it is not the Groq candidate of a request
\* with an image), with no success or reset in between.
C19_CooldownWindow ==
    [][ /\ \A n \in ModelNames : modelStats'[n].lastFailure = rateLimitedAt'[n]
        /\ \A r \in Reqs : req'[r] # req[r] => \A i \in Cands :
               LET n == MODEL_PRIORITY[i].name
               IN  /\ (Skips(r, i) /\ req'[r].log[i].ev = "cooldown") =>
                          /\ InWindow(n)
                          /\ modelStats'[n].lastFailure = modelStats[n].lastFailure
                   /\ (Skips(r, i) /\ req'[r].log[i].ev = "image") =>
                          /\ ~InWindow(n)
                          /\ req'[r].imageParts
                          /\ MODEL_PRIORITY[i].provider = "groq"
                   /\ CallStarts(r, i) => ~InWindow(n) ]_vars

\* the second request, accepted after the first had ended, is calling the
\* first candidate 60000 ms after that candidate's only rate-limit failure
C19_Witness ==
    /\ req[1].message = 2
    /\ req[1].pc = "await"
    /\ req[1].idx = 1
    /\ modelStats[MODEL_PRIORITY[1].name].rateLimitHits = 1
    /\ modelStats[MODEL_PRIORITY[1].name].lastFailure = 1
    /\ now = 60001

\* the dialogue stored for sessionId k holds the user message of request r
HoldsTurnOf(sessions, objs, k, r) ==
    /\ sessions[k] # 0
    /\ \E j \in 1..Len(objs[sessions[k]].history) :
           objs[sessions[k]].history[j] = Turn("user", req[r].message)

\* C20 (as claimed): two chat requests with the same sessionId that are in
\* flight at the same time do not lose each other's turn: when the second of
\* them is served, by the Gemini model that served the first, the dialogue
\* stored for the sessionId holds both turns.  (The two requests are the
\* only ones so far and sit in different slots, so the second was accepted
\* while the first was waiting for its provider call.)
C20_ConcurrentTurnsBothKept ==
    [][ \A r \in Reqs : \A q \in Reqs \ {r} :
            ( /\ started = 2
              /\ ChatServed(r)
              /\ req[q].op = "chat"
              /\ Succeeded(q)
              /\ req[q].sessionId = req[r].sessionId
              /\ req'[r].provider = "gemini"
              /\ req'[r].modelUsed = req[q].modelUsed
              /\ HoldsTurnOf(chatSessions, chatObjs, req[q].sessionId, q) ) =>
                /\ HoldsTurnOf(chatSessions', chatObjs', req[r].sessionId, q)
                /\ HoldsTurnOf(chatSessions', chatObjs', req[r].sessionId, r) ]_vars

\* the failure record of the models: failures, rateLimitHits, lastFailure
FailureRecord(stats) ==
    [n \in ModelNames |-> << stats[n].failures, stats[n].rateLimitHits,
                             stats[n].lastFailure >>]

\* C21: when the inbound request is aborted while one of its provider calls
\* is in flight, the outcome of that call is discarded: no later step of
\* the request changes a model's failures, rateLimitHits or lastFailure, or
\* the chat session store.
C21_AbortDiscardsOutcome ==
    [][ \A r \in Reqs :
            (req[r].aborted /\ req'[r] # req[r]) =>
                /\ FailureRecord(modelStats') = FailureRecord(modelStats)
                /\ chatSessions' = chatSessions ]_vars

\* the provider calls request r has made so far
Calls(r) ==
    Cardinality({k \in 1..Len(req[r].log) : req[r].log[k].ev \in {"ok", "fail"}})
        + (IF req[r].pc = "await" THEN 1 ELSE 0)

\* C22: provided every provider call returns in the end, every plain
\* generation or chat request terminates, with a success or with exhaustion,
\* and it makes at most as many provider calls as the registry has candidates.
C22_EveryRequestTerminates ==
    /\ [](\A r \in Reqs :
             /\ Calls(r) <= NModels
             /\ req[r].pc = "done" => Succeeded(r) \/ Exhausted(r))
    /\ \A r \in Reqs : (req[r].pc = "await") ~> (req[r].pc = "done")

\* a chat request ended in exhaustion after one call to every candidate and
\* a plain-generation request was served
C22_Witness ==
    \E r \in Reqs, q \in Reqs :
        /\ req[r].op = "chat"
        /\ Exhausted(r)
        /\ Calls(r) = NModels
        /\ req[q].op = "generate"
        /\ Succeeded(q)

\* C23: a chat turn served by Groq, the provider without stateful dialogue,
\* sends the fixed system message and the current message only, no earlier
\* turn, and it neither creates nor updates a stored session.
C23_GroqTurnIsStateless ==
    [][ \A r \in Reqs :
            (ChatServed(r) /\ req'[r].provider = "groq") =>
                /\ req'[r].sent = << Turn("system", 0), Turn("user", req[r].message) >>
                /\ chatSessions' = chatSessions
                /\ chatObjs' = chatObjs ]_vars

\* Groq served a turn of a sessionId whose stored dialogue already held an
\* exchange, and the session is still stored
C23_Witness ==
    \E r \in Reqs :
        /\ Succeeded(r)
        /\ req[r].op = "chat"
        /\ req[r].provider = "groq"
        /\ Len(req[r].startHistory) > Len(Priming)
        /\ chatSessions[req[r].sessionId] # 0
        /\ chatObjs[chatSessions[req[r].sessionId]].history = req[r].startHistory

\* the rate reported for model n is (attempts - failures) / attempts, as a
\* percentage in hundredths, to within half a hundredth
Rounded(entry) ==
    LET exact == (entry.attempts - entry.failures) * 10000
        shown == entry.successRate.hundredths * entry.attempts
    IN  /\ 2 * (shown - exact) <= entry.attempts
        /\ 2 * (exact - shown) <= entry.attempts

\* C24 (as claimed): the stats snapshot changes no counter, no lastFailure
\* and no session, and reports for every model successRate = (attempts -
\* failures) / attempts when attempts > 0 and the undefined marker exactly
\* when attempts = 0, so the rate lies between 0% and 100%.
C24_SnapshotExactRate ==
    [][ GetModelStats =>
            /\ UNCHANGED <<modelStats, chatSessions, chatObjs, req>>
            /\ \A n \in ModelNames :
                   LET entry == httpRes'.models[n]
                   IN  /\ entry.successRate.text = "N/A" <=> modelStats[n].attempts = 0
                       /\ entry.successRate.hundredths * entry.attempts
                              = (entry.attempts - entry.failures) * 10000
                       /\ entry.successRate.hundredths \in 0..10000 ]_vars

\* C24 (amended): the same, with the rate reported as a percentage rounded
\* to two decimals, so equal to (attempts - failures) / attempts to within
\* half a hundredth of a percent.
C24_SnapshotRoundedRate ==
    [][ GetModelStats =>
            /\ UNCHANGED <<modelStats, chatSessions, chatObjs, req>>
            /\ \A n \in ModelNames :
                   LET entry == httpRes'.models[n]
                   IN  /\ entry.successRate.text = "N/A" <=> modelStats[n].attempts = 0
                       /\ entry.attempts = modelStats[n].attempts
                       /\ entry.failures = modelStats[n].failures
                       /\ entry.rateLimitHits = modelStats[n].rateLimitHits
                       /\ Rounded(entry)
                       /\ entry.successRate.hundredths \in 0..10000 ]_vars

\* a snapshot was answered that reports 66.67% for a model with one failure
\* in three attempts and N/A for a model never tried
C24_Witness ==
    /\ httpRes.statusCode = 200
    /\ httpRes.models # << >>
    /\ \E n \in ModelNames, m \in ModelNames :
           /\ modelStats[n].attempts = 3
           /\ modelStats[n].failures = 1
           /\ httpRes.models[n].successRate = [text |-> "%", hundredths |-> 6667]
           /\ modelStats[m].attempts = 0
           /\ httpRes.models[m].successRate.text = "N/A"

\* the latest rate-limit failure of model n is less than 60 s old and was
\* recorded by a request of the operation other than op
LimitedByOther(n, op) ==
    /\ rateLimitedBy[n] \notin {"none", op}
    /\ now - rateLimitedAt[n] < CooldownMs

\* C25: the cooldown is shared between the two operations: for 60 s after a
\* rate-limit failure that a chat request recorded for a model, every
\* plain-generation request that comes to that model skips it for cooldown
\* and does not call it, and likewise a chat request after a failure that a
\* plain-generation request recorded.
C25_CooldownSharedAcrossOperations ==
    [][ \A r \in Reqs : req'[r] # req[r] => \A i \in Cands :
            LimitedByOther(Registry[i].name, req'[r].op) =>
                /\ ~Invokes(r, i)
                /\ (i \in NewEntries(r) /\ req'[r].log[i].ev \notin {"ok", "fail"}) =>
                       req'[r].log[i].ev = "cooldown" ]_vars

\* a plain-generation request has skipped, for cooldown, a model whose only
\* rate-limit failure was recorded by a chat request, 59999 ms earlier
C25_Witness ==
    \E r \in Reqs, i \in Cands :
        /\ req[r].op = "generate"
        /\ i <= Len(req[r].log)
        /\ req[r].log[i] = Entry(i, "cooldown", undefined)
        /\ rateLimitedBy[Registry[i].name] = "chat"
        /\ modelStats[Registry[i].name].rateLimitHits = 1
        /\ now - rateLimitedAt[Registry[i].name] = CooldownMs - 1

\* C26 (as claimed): once clear-chat or clear-all-chats has emptied a key,
\* the key stays absent until a chat request that starts afterwards is
\* served: a chat request that was in flight when the clear ran (it found a
\* session under the key when it started, and the key is empty when it is
\* served) does not put a session back.
C26_ClearedKeyStaysAbsent ==
    [][ \A r \in Reqs :
            ( /\ ChatServed(r)
              /\ req[r].startModel # undefined
              /\ chatSessions[req[r].sessionId] = 0 ) =>
                chatSessions'[req[r].sessionId] = 0 ]_vars

\* request r examines candidates or ends in this step without being served
Unserved(r) ==
    /\ req'[r] # req[r]
    /\ req'[r].op = "chat"
    /\ ~ChatServed(r)

\* C27: a chat request that ends in exhaustion leaves the chat session store
\* as it was: none of its steps, from its start to the exhaustion, creates,
\* replaces or removes a session or changes a stored dialogue, although it
\* starts fresh dialogues for the candidates it tries.
C27_ExhaustionKeepsStore ==
    [][ \A r \in Reqs :
            Unserved(r) =>
                /\ chatSessions' = chatSessions
                /\ chatObjs' = chatObjs
                /\ Exhausted(r)' =>
                       /\ req'[r].error = chatExhausted(req'[r].lastError)
                       /\ \A j \in 1..Len(req'[r].log) :
                              req'[r].log[j].ev \in {"fail", "cooldown"} ]_vars

\* a chat request for a key that holds a session ended in exhaustion after
\* a call to every candidate, the Gemini ones on fresh dialogues, and the
\* session is still the one the request found
C27_Witness ==
    \E r \in Reqs :
        /\ req[r].op = "chat"
        /\ Exhausted(r)
        /\ Len(req[r].log) = NModels
        /\ \A j \in 1..NModels : req[r].log[j].ev = "fail"
        /\ req[r].startModel = Registry[1].name
        /\ chatSessions[req[r].sessionId] # 0
        /\ chatObjs[chatSessions[req[r].sessionId]].history = req[r].startHistory

\* a request of operation op arriving now would find every candidate
\* skipped: inside its cooldown window, or Groq for a request with an image
NoneAvailable(op, imageParts) ==
    \A i \in Cands :
        \/ /\ rateLimitedAt[Registry[i].name] # 0
           /\ now - rateLimitedAt[Registry[i].name] < CooldownMs
        \/ /\ op = "generate"
           /\ imageParts
           /\ Registry[i].provider = "groq"

\* request r arrives in this step
Arrival(r) ==
    /\ req[r].pc # "await"
    /\ req'[r] # req[r]

\* C28: a request that arrives while every candidate is cooling down, or is
\* skipped for another reason, fails with exhaustion (503) without a provider
\* call, and leaves the failures, rateLimitHits and lastFailure of every
\* model as they were.
C28_NoCandidateNoCall ==
    [][ \A r \in Reqs :
            (Arrival(r) /\ NoneAvailable(req'[r].op, req'[r].imageParts)) =>
                /\ Exhausted(r)'
                /\ req'[r].error.statusCode = 503
                /\ \A i \in Cands : ~Invokes(r, i)
                /\ Len(req'[r].log) = NModels
                /\ \A j \in 1..Len(req'[r].log) :
                       req'[r].log[j].ev \in {"cooldown", "image"}
                /\ FailureRecord(modelStats') = FailureRecord(modelStats) ]_vars

\* a chat request that arrived while every model was inside its cooldown
\* window has ended in exhaustion with a skip of every candidate
C28_Witness ==
    \E r \in Reqs :
        /\ req[r].op = "chat"
        /\ Exhausted(r)
        /\ Len(req[r].log) = NModels
        /\ \A j \in 1..NModels : req[r].log[j].ev = "cooldown"
        /\ \A n \in ModelNames : modelStats[n].rateLimitHits = 1

====
